---- MODULE Spec2Model ----
(***************************************************************************)
(* Model of the terminal-ai session engine: the runAgentMode session loop  *)
(* of src/commands/agent.ts, the readline agent loop of src/commands/ai.ts,*)
(* the conversation turn of the LLM service, the function registry and the *)
(* thread store.  Text is modelled by TLA+ strings, trimmed and compared   *)
(* character by character as the code does.  A behaviour is either one run *)
(* of `ai --agent` (ai.ts) or a runAgentMode session followed by at most   *)
(* one later session over the same thread store, so that every stored      *)
(* thread a session resumes was written by an earlier session.             *)
(* TurnFairSpec is one turn of a running session under the fairness of its *)
(* awaited calls; NameSpec is the rename that follows a stored exchange,   *)
(* for histories whose texts are around the 120 characters of the cap.     *)
(***************************************************************************)
EXTENDS Integers, Sequences, FiniteSets, TLC

(* ------------------------------ bounds -------------------------------- *)
MaxTurns == 2
MaxCalls == 2
MaxAiTurns == 2

(* --------------------------- program constants ------------------------ *)
\* variant of EXIT_COMMANDS that forgets the short form
EXIT_COMMANDS_WithoutQ == {"exit", "quit"}
EXIT_COMMANDS == {"exit", "quit", "q"}
HELP_COMMAND == "help"
DefaultNamePrefix == "Thread-"
NameCap == 120
ContextHeader == "\n\nAdditional context from piped input:\n"

(* ------------------------------ inputs -------------------------------- *)
NoThreadId == ""
MissingId == "nonexistent"
PromptInputs == {"exit", " quit ", "q", "help", " ", "EXIT"}
InitialArgs == { [input |-> "", context |-> ""],
                 [input |-> "hi", context |-> ""],
                 [input |-> "", context |-> "c"] }
Replies == {"Done."}
ToolNames == {"executeCommand", "nope"}
Registered == {"executeCommand"}
UsageOptions == { [inputTokens |-> 3, outputTokens |-> 2] }
ToolRoundUsage == { [inputTokens |-> 5, outputTokens |-> 1] }
ZeroUsage == [inputTokens |-> 0, outputTokens |-> 0]
AiLines == {"exit", "Quit", "q", "help", "hi"}
AiArguments == { << >>, << "list", "files" >> }

VARIABLES
  store,                \* thread store: id -> [exists, name, messages]
  nextId,               \* next thread id createThread hands out
  threadId,             \* the threadId option runAgentMode was called with
  sessions,             \* sessions started so far: a session and one later session
                        \* over the same store are modelled
  pc,                   \* position of runAgentMode
  thread,               \* the local Thread object of runAgentMode
  conversationHistory,  \* let conversationHistory
  userInput,            \* let userInput
  totalUsage,           \* const totalUsage
  costTracker,          \* usage given to the module-level costTracker
  exitDisplay,          \* totals shown by costTracker.displayTotalCost()
  work,                 \* working history of the running turn
  turnUsage,            \* usage summed over the provider calls of the turn
  pending,              \* function calls of the round still to dispatch
  inFlight,             \* provider calls in flight
  nextCallId,           \* provider-side counter of call ids (calls so far + 1)
  turns,                \* turns begun so far, over all sessions
  providerCalls,        \* provider invocations of this session
  sentinelRead,         \* a sentinel was read in this session
  renameCalls,          \* names passed to renameThread in this session
  reported,             \* sum of the usage returned by the turns of this session
  storedAtTurnStart,    \* stored messages when the running turn began
  lineRead,             \* the last line a prompt of this session returned
  loaded,               \* the messages of the thread as the session loaded it
  lastToolFailed,       \* the last dispatched call failed or was not registered
  outcome,              \* "running", or how the session ended
  aiPc,                 \* position of the agent branch of aiCommand (ai.ts)
  aiHistory,            \* module-level conversationHistory of ai.ts
  aiArmed,              \* readline questions waiting for a line
  aiCalls,              \* inputs whose processCommand is in flight
  aiSubmitted,          \* inputs handed to processCommand so far
  modelsFile,           \* config/models.yaml as it is on disk
  configResult          \* the last call of a model-config.ts function, with
                        \* what it returned

vars == << store, nextId, threadId, sessions, pc, thread, conversationHistory, userInput,
           totalUsage, costTracker, exitDisplay, work, turnUsage, pending, inFlight, nextCallId,
           turns, providerCalls, sentinelRead, renameCalls, reported,
           storedAtTurnStart, lineRead, loaded, lastToolFailed, outcome,
           aiPc, aiHistory, aiArmed, aiCalls, aiSubmitted,
           modelsFile, configResult >>

configVars == << modelsFile, configResult >>

aiVars == << aiPc, aiHistory, aiArmed, aiCalls, aiSubmitted >>

(* ------------------------------ text ---------------------------------- *)
IsSpace(c) == c \in {" ", "\t", "\n"}

RECURSIVE TrimStart(_)
TrimStart(s) ==
  IF Len(s) > 0 /\ IsSpace(SubSeq(s, 1, 1))
  THEN TrimStart(SubSeq(s, 2, Len(s)))
  ELSE s

RECURSIVE TrimEnd(_)
TrimEnd(s) ==
  IF Len(s) > 0 /\ IsSpace(SubSeq(s, Len(s), Len(s)))
  THEN TrimEnd(SubSeq(s, 1, Len(s) - 1))
  ELSE s

Trim(s) == TrimEnd(TrimStart(s))

StartsWith(s, p) == Len(s) >= Len(p) /\ SubSeq(s, 1, Len(p)) = p

(* ----------------------------- messages ------------------------------- *)
TextMsg(r, c) == [role |-> r, content |-> c, calls |-> << >>]
CallMsg(call) == [role |-> "function_call", content |-> "", calls |-> << call >>]
ResultMsg(res) == [role |-> "function", content |-> "", calls |-> << res >>]

IsPrefix(a, b) == Len(a) <= Len(b) /\ SubSeq(b, 1, Len(a)) = a

FirstWithRole(hist, r) ==
  LET idx == { i \in 1..Len(hist) : hist[i].role = r }
  IN IF idx = {} THEN ""
     ELSE hist[CHOOSE i \in idx : \A j \in idx : i <= j].content

\* variant of TruncatedName: a text of exactly the cap is cut as well
TruncatedNameCutsAtCap(hist) ==
  LET userMessage == FirstWithRole(hist, "user")
      aiResponse == FirstWithRole(hist, "assistant")
      combinedContent == userMessage \o " " \o aiResponse
  IN IF Len(combinedContent) >= NameCap
     THEN Trim(SubSeq(combinedContent, 1, NameCap)) \o "..."
     ELSE combinedContent

(* the thread name runAgentMode derives from the conversation *)
TruncatedName(hist) ==
  LET userMessage == FirstWithRole(hist, "user")
      aiResponse == FirstWithRole(hist, "assistant")
      combinedContent == userMessage \o " " \o aiResponse
  IN IF Len(combinedContent) > NameCap
     THEN Trim(SubSeq(combinedContent, 1, NameCap)) \o "..."
     ELSE combinedContent

(* --------------------------- thread store ----------------------------- *)
ThreadIds == {"t1", "t2"}
ThreadIdOf(n) == "t" \o ToString(n)
NoThread == [exists |-> FALSE, name |-> "", messages |-> << >>]

CreateThread(st, n) ==
  [st EXCEPT ![ThreadIdOf(n)] = [exists |-> TRUE,
                                 name |-> DefaultNamePrefix \o ToString(n),
                                 messages |-> << >>]]

HasThread(st, id) == id \in DOMAIN st /\ st[id].exists

\* variant of GetThreadResult: a missing id is reported as an error
GetThreadThrowsOnMissing(st, id) == IF HasThread(st, id) THEN "found" ELSE "error"

(* getThread(id) -> Thread | not found: a missing id is not an error *)
GetThreadResult(st, id) == IF HasThread(st, id) THEN "found" ELSE "notFound"

GetThread(st, id) == [id |-> id, name |-> st[id].name, messages |-> st[id].messages]

UpdateThread(st, id, msgs) == [st EXCEPT ![id].messages = msgs]

RenameThread(st, id, name) == [st EXCEPT ![id].name = name]

(* ------------------------- function registry -------------------------- *)
\* variant of DispatchFunction: a failure is reported as a result
DispatchFunctionLosesFailure(call, handlerOk) ==
  [name |-> call.name, result |-> "out", hasError |-> FALSE,
   error |-> "", callId |-> call.callId]

\* variant of DispatchFunction: the result does not carry the call's id
DispatchFunctionLosesCallId(call, handlerOk) ==
  [name |-> call.name, result |-> "out", hasError |-> FALSE,
   error |-> "", callId |-> ""]

DispatchFunction(call, handlerOk) ==
  IF call.name \notin Registered
  THEN [name |-> call.name, result |-> "", hasError |-> TRUE,
        error |-> "FunctionNotFound", callId |-> call.callId]
  ELSE IF handlerOk
  THEN [name |-> call.name, result |-> "out", hasError |-> FALSE,
        error |-> "", callId |-> call.callId]
  ELSE [name |-> call.name, result |-> "", hasError |-> TRUE,
        error |-> "boom", callId |-> call.callId]

(* ------------------------- processUserInput --------------------------- *)
(* the lines the user can type that are sentinels: exit, quit or q, with
   surrounding blanks or without *)
SentinelLines == {"exit", " quit ", "q"}

(* the lines the user can type that are help or blank *)
HelpOrBlankLines == {"help", " "}

\* variant of ProcessUserInput: help is passed on as ordinary input
ProcessUserInputHelpIsInput(raw) ==
  LET trimmedInput == Trim(raw)
  IN IF trimmedInput \in EXIT_COMMANDS
     THEN [kind |-> "exit", input |-> trimmedInput]
     ELSE IF trimmedInput = ""
     THEN [kind |-> "empty", input |-> trimmedInput]
     ELSE [kind |-> "input", input |-> trimmedInput]

\* variant of ProcessUserInput: the exit commands are matched in any case
ProcessUserInputAnyCase(raw) ==
  LET trimmedInput == Trim(raw)
  IN IF trimmedInput \in EXIT_COMMANDS \cup {"EXIT", "QUIT", "Q"}
     THEN [kind |-> "exit", input |-> trimmedInput]
     ELSE IF trimmedInput = HELP_COMMAND
     THEN [kind |-> "help", input |-> trimmedInput]
     ELSE IF trimmedInput = ""
     THEN [kind |-> "empty", input |-> trimmedInput]
     ELSE [kind |-> "input", input |-> trimmedInput]

ProcessUserInput(raw) ==
  LET trimmedInput == Trim(raw)
  IN IF trimmedInput \in EXIT_COMMANDS
     THEN [kind |-> "exit", input |-> trimmedInput]
     ELSE IF trimmedInput = HELP_COMMAND
     THEN [kind |-> "help", input |-> trimmedInput]
     ELSE IF trimmedInput = ""
     THEN [kind |-> "empty", input |-> trimmedInput]
     ELSE [kind |-> "input", input |-> trimmedInput]

AddUsage(a, b) == [inputTokens |-> a.inputTokens + b.inputTokens,
                   outputTokens |-> a.outputTokens + b.outputTokens]

(* --------------------------- model-config.ts -------------------------- *)
(* models.yaml: absent, not parseable, or a list of provider entries in
   file order, each {default, models: [{name, value, pricing}]} *)
ModelEntry(n, v, i, o) ==
  [name |-> n, value |-> v, pricing |-> [input |-> i, output |-> o]]

OpenAiEntry ==
  [provider |-> "openai", default |-> "gpt-4o-mini",
   models |-> << ModelEntry("GPT-4o", "gpt-4o", 5, 15),
                 ModelEntry("GPT-4o mini", "gpt-4o-mini", 1, 2) >>]
ClaudeEntry ==
  [provider |-> "claude", default |-> "claude-3-5-sonnet",
   models |-> << ModelEntry("Claude 3.5 Sonnet", "claude-3-5-sonnet", 3, 15) >>]
OllamaEntry ==
  [provider |-> "ollama", default |-> "mistral", models |-> << >>]

FileOf(st, es) == [state |-> st, entries |-> es]

ShippedModelsFile == FileOf("ok", << OpenAiEntry, ClaudeEntry, OllamaEntry >>)

ModelsFiles ==
  { FileOf("absent", << >>),
    FileOf("unparseable", << >>),
    FileOf("ok", << >>),
    FileOf("ok", << OpenAiEntry >>),
    FileOf("ok", << ClaudeEntry, OpenAiEntry >>),
    FileOf("ok", << OllamaEntry >>),
    ShippedModelsFile }

Providers == {"openai", "claude", "gemini", "ollama", "other"}
ModelValues == {"gpt-4o", "gpt-4o-mini", "claude-3-5-sonnet", "llama3", "nope"}
TokenCounts == { [inputTokens |-> 0, outputTokens |-> 0],
                 [inputTokens |-> 1000000, outputTokens |-> 500000] }

NullConfig == [isNull |-> TRUE, entries |-> << >>]
NoModel == [isNull |-> TRUE, name |-> "", value |-> "",
            pricing |-> [input |-> 0, output |-> 0]]
NoCall == [fn |-> "none", arg |-> "", usage |-> ZeroUsage, threw |-> FALSE,
           text |-> "", model |-> NoModel, cost |-> 0]

(* lines 34-50 *)
ReadModelsConfig(file) ==
  IF file.state = "ok"
  THEN [isNull |-> FALSE, entries |-> file.entries]
  ELSE NullConfig

(* config[provider] *)
EntryIndex(config, provider) ==
  { i \in 1..Len(config.entries) : config.entries[i].provider = provider }
HasEntry(config, provider) == EntryIndex(config, provider) # {}
EntryOf(config, provider) ==
  config.entries[CHOOSE i \in EntryIndex(config, provider) : TRUE]

(* lines 75-86 *)
FallbackDefault(provider) ==
  CASE provider = "openai" -> "gpt-4o"
    [] provider = "claude" -> "claude-3-opus-20240229"
    [] provider = "gemini" -> "gemini-1.5-pro"
    [] provider = "ollama" -> "llama3"
    [] OTHER -> ""

(* reading a property of the configuration: a TypeError if it is null *)
Deref(config) == [threw |-> config.isNull, entries |-> config.entries]

\* variant of GetDefaultModel: without the hardcoded defaults
GetDefaultModelNoFallback(file, provider) ==
  LET config == ReadModelsConfig(file)
  IN IF config.isNull \/ ~HasEntry(config, provider)
     THEN [threw |-> FALSE, text |-> ""]
     ELSE [threw |-> Deref(config).threw,
           text |-> EntryOf(config, provider).default]

(* lines 71-90 *)
GetDefaultModel(file, provider) ==
  LET config == ReadModelsConfig(file)
  IN IF config.isNull \/ ~HasEntry(config, provider)
     THEN [threw |-> FALSE, text |-> FallbackDefault(provider)]
     ELSE [threw |-> Deref(config).threw,
           text |-> EntryOf(config, provider).default]

(* models.find((m) => m.value === modelValue) *)
FindModel(models, modelValue) ==
  LET hits == { i \in 1..Len(models) : models[i].value = modelValue }
  IN IF hits = {} THEN NoModel
     ELSE LET m == models[CHOOSE i \in hits : \A j \in hits : i <= j]
          IN [isNull |-> FALSE, name |-> m.name, value |-> m.value,
              pricing |-> m.pricing]

(* lines 101-106: the first provider, in file order, that has the model *)
RECURSIVE FirstModel(_, _)
FirstModel(entries, modelValue) ==
  IF entries = << >> THEN NoModel
  ELSE LET model == FindModel(Head(entries).models, modelValue)
       IN IF ~model.isNull THEN model
          ELSE FirstModel(Tail(entries), modelValue)

\* variant of GetModelByValue: without the test of line 99
GetModelByValueUnguarded(file, modelValue) ==
  LET config == ReadModelsConfig(file)
  IN [threw |-> Deref(config).threw,
      model |-> FirstModel(Deref(config).entries, modelValue)]

(* lines 97-107 *)
GetModelByValue(file, modelValue) ==
  LET config == ReadModelsConfig(file)
  IN IF config.isNull THEN [threw |-> FALSE, model |-> NoModel]
     ELSE [threw |-> Deref(config).threw,
           model |-> FirstModel(Deref(config).entries, modelValue)]

(* lines 116-128; the cost is kept in millionths of a dollar, the division
   by 1000000 of lines 124-125 not carried out *)
CalculateCost(file, modelValue, inputTokens, outputTokens) ==
  LET found == GetModelByValue(file, modelValue)
  IN IF found.threw THEN [threw |-> TRUE, cost |-> 0]
     ELSE IF found.model.isNull THEN [threw |-> FALSE, cost |-> 0]
     ELSE [threw |-> FALSE,
           cost |-> inputTokens * found.model.pricing.input
                      + outputTokens * found.model.pricing.output]

(* ------------------------------- Init --------------------------------- *)
(* nothing has run yet *)
IdleProcess ==
  /\ store = [i \in ThreadIds |-> NoThread]
  /\ nextId = 1
  /\ threadId = NoThreadId
  /\ sessions = 0
  /\ pc = "idle"
  /\ thread = [id |-> NoThreadId, name |-> "", messages |-> << >>]
  /\ conversationHistory = << >>
  /\ userInput = ""
  /\ totalUsage = ZeroUsage
  /\ costTracker = ZeroUsage
  /\ exitDisplay = << >>
  /\ work = << >>
  /\ turnUsage = ZeroUsage
  /\ pending = << >>
  /\ inFlight = 0
  /\ nextCallId = 1
  /\ turns = 0
  /\ providerCalls = 0
  /\ sentinelRead = FALSE
  /\ renameCalls = << >>
  /\ reported = ZeroUsage
  /\ storedAtTurnStart = << >>
  /\ lineRead = "none"
  /\ loaded = << >>
  /\ lastToolFailed = FALSE
  /\ outcome = "none"
  /\ aiPc = "off"
  /\ aiHistory = << >>
  /\ aiArmed = 0
  /\ aiCalls = << >>
  /\ aiSubmitted = << >>

Init ==
  /\ IdleProcess
  /\ modelsFile = ShippedModelsFile
  /\ configResult = NoCall

(* ----------------------- runAgentMode: setup -------------------------- *)
TurnLocals == << work, turnUsage, pending, inFlight, nextCallId,
                lastToolFailed >>

ResetSession ==
  /\ sessions' = sessions + 1
  /\ totalUsage' = ZeroUsage
  /\ costTracker' = ZeroUsage
  /\ exitDisplay' = << >>
  /\ work' = << >>
  /\ turnUsage' = ZeroUsage
  /\ pending' = << >>
  /\ inFlight' = 0
  /\ providerCalls' = 0
  /\ sentinelRead' = FALSE
  /\ renameCalls' = << >>
  /\ reported' = ZeroUsage
  /\ storedAtTurnStart' = << >>
  /\ lineRead' = "none"
  /\ lastToolFailed' = FALSE
  /\ UNCHANGED << nextCallId, turns >>

(* lines 182-224 once the thread object th is known; st is the store after
   the load.  conversationHistory is the very array th.messages, so a push
   to one is a push to the other. *)
EnterConversation(st, th, input, context) ==
  LET ui == IF Trim(context) # ""
            THEN input \o ContextHeader \o context
            ELSE input
      pushed == [th EXCEPT !.messages = Append(@, TextMsg("user", ui))]
  IN IF Len(th.messages) = 0 /\ Trim(ui) = ""
     THEN /\ thread' = th
          /\ loaded' = th.messages
          /\ conversationHistory' = th.messages
          /\ userInput' = ui
          /\ store' = st
          /\ pc' = "firstPrompt"
          /\ outcome' = "running"
     ELSE LET th1 == IF Len(th.messages) = 0 \/ Trim(ui) # "" THEN pushed ELSE th
              hist == th1.messages
          IN /\ thread' = th1
             /\ loaded' = th.messages
             /\ conversationHistory' = hist
             /\ userInput' = ui
             /\ store' = IF Len(hist) > Len(th1.messages)
                         THEN UpdateThread(st, th1.id, hist)
                         ELSE st
             /\ pc' = "loopTop"
             /\ outcome' = "running"

\* variant of CatchPc: a catch inside the while loop, which goes on prompting
CatchInsideLoop == "prompt"

(* where an error thrown inside the try block leaves runAgentMode: the
   catch of lines 309-317 is outside the while loop, the function returns *)
CatchPc == "ended"

(* an error thrown before the loop, with the outcome it is recorded as *)
SetupFailsWith(o) ==
  /\ thread' = [id |-> NoThreadId, name |-> "", messages |-> << >>]
  /\ loaded' = << >>
  /\ conversationHistory' = << >>
  /\ userInput' = ""
  /\ pc' = CatchPc
  /\ outcome' = o
  /\ UNCHANGED << store, nextId >>

SetupFails == SetupFailsWith("error:setup")

(* the process is started: the first time, or once more after a session ended *)
CanStart == (pc = "idle" /\ sessions = 0) \/ (pc = "ended" /\ sessions = 1)

StartSession ==
  /\ CanStart
  /\ UNCHANGED << aiVars, configVars >>
  /\ turns < MaxTurns
  /\ ResetSession
  /\ \E args \in InitialArgs,
        id \in {NoThreadId, MissingId} \cup ThreadIds :
       /\ id \in ThreadIds => store[id].exists
       /\ threadId' = id
       /\ IF id # NoThreadId /\ GetThreadResult(store, id) = "error"
          THEN SetupFailsWith("error:getThread")
          ELSE IF id # NoThreadId /\ GetThreadResult(store, id) = "found"
          THEN /\ nextId' = nextId
               /\ EnterConversation(store, GetThread(store, id),
                                    args.input, args.context)
          ELSE /\ nextId' = nextId + 1
               /\ EnterConversation(CreateThread(store, nextId),
                                    GetThread(CreateThread(store, nextId),
                                              ThreadIdOf(nextId)),
                                    args.input, args.context)

StartSessionStoreFails ==
  /\ CanStart
  /\ UNCHANGED << aiVars, configVars >>
  /\ ResetSession
  /\ \E id \in {NoThreadId, MissingId} \cup ThreadIds :
       /\ id \in ThreadIds => store[id].exists
       /\ threadId' = id
  /\ SetupFails

FirstPrompt ==
  /\ pc = "firstPrompt"
  /\ UNCHANGED << aiVars, configVars >>
  /\ \E raw \in PromptInputs :
       LET r == ProcessUserInput(raw)
       IN /\ lineRead' = raw
          /\ IF r.kind = "exit"
             THEN /\ pc' = "ended"
                  /\ outcome' = "returned"
                  /\ sentinelRead' = (sentinelRead \/ raw \in SentinelLines)
                  /\ UNCHANGED << thread, conversationHistory, userInput >>
             ELSE IF r.kind \in {"help", "empty"}
             THEN /\ sentinelRead' = (sentinelRead \/ raw \in SentinelLines)
                  /\ UNCHANGED << pc, outcome, thread,
                                  conversationHistory, userInput >>
             ELSE /\ thread' = [thread EXCEPT !.messages =
                                  Append(@, TextMsg("user", r.input))]
                  /\ conversationHistory' = thread'.messages
                  /\ userInput' = r.input
                  /\ pc' = "loopTop"
                  /\ sentinelRead' = (sentinelRead \/ raw \in SentinelLines)
                  /\ outcome' = outcome
  /\ store' = IF Len(conversationHistory') > Len(thread'.messages)
              THEN UpdateThread(store, thread.id, conversationHistory')
              ELSE store
  /\ UNCHANGED << nextId, threadId, sessions, loaded, totalUsage, TurnLocals,
                  turns, providerCalls, renameCalls, reported,
                  storedAtTurnStart, costTracker, exitDisplay >>

(* --------------- LLM.generateStreamingCompletion (one turn) ----------- *)
SessionFrame == << nextId, threadId, sessions, thread, userInput, loaded,
                  costTracker, exitDisplay >>

(* line 244: the turn starts on a working copy with the input appended *)
StartTurn(hist, input) == Append(hist, TextMsg("user", input))

BeginTurn ==
  /\ pc = "loopTop"
  /\ UNCHANGED << aiVars, configVars >>
  /\ work' = StartTurn(conversationHistory, userInput)
  /\ turnUsage' = ZeroUsage
  /\ pending' = << >>
  /\ inFlight' = inFlight + 1
  /\ providerCalls' = providerCalls + 1
  /\ turns' = turns + 1
  /\ storedAtTurnStart' = store[thread.id].messages
  /\ pc' = "provider"
  /\ UNCHANGED << store, SessionFrame, lastToolFailed, conversationHistory, totalUsage,
                  nextCallId, sentinelRead, renameCalls, reported,
                  lineRead, outcome >>

(* the calls of one provider response, with the ids the provider gives *)
NumberCalls(names, from) ==
  [i \in 1..Len(names) |->
     [name |-> names[i], arguments |-> "ls",
      callId |-> "c" \o ToString(from + i - 1)]]

CallNameSeqs == UNION { [1..n -> ToolNames] : n \in 1..MaxCalls }

(* the provider answers with text only: the turn is done *)
ProviderFinal ==
  /\ pc = "provider"
  /\ UNCHANGED << aiVars, configVars >>
  /\ \E content \in Replies, usage \in UsageOptions :
       /\ work' = Append(work, TextMsg("assistant", content))
       /\ turnUsage' = AddUsage(turnUsage, usage)
       /\ reported' = AddUsage(reported, turnUsage')
  /\ inFlight' = inFlight - 1
  /\ pc' = "persist"
  /\ UNCHANGED << store, SessionFrame, lastToolFailed, conversationHistory, totalUsage,
                  pending, nextCallId, turns, providerCalls,
                  sentinelRead, renameCalls, storedAtTurnStart, lineRead,
                  outcome >>

(* the provider asks for function calls *)
ProviderCalls ==
  /\ pc = "provider"
  /\ UNCHANGED << aiVars, configVars >>
  /\ \E names \in CallNameSeqs, usage \in ToolRoundUsage :
       /\ nextCallId - 1 + Len(names) <= MaxCalls
       /\ pending' = NumberCalls(names, nextCallId)
       /\ nextCallId' = nextCallId + Len(names)
       /\ turnUsage' = AddUsage(turnUsage, usage)
  /\ inFlight' = inFlight - 1
  /\ pc' = "dispatch"
  /\ UNCHANGED << store, SessionFrame, lastToolFailed, conversationHistory, totalUsage, work,
                  turns, providerCalls, sentinelRead, renameCalls, reported,
                  storedAtTurnStart, lineRead, outcome >>

\* variant of StoreAfterError: the failed turn's working copy is written
StoreWorkingCopyOnError(st, id, hist) == UpdateThread(st, id, hist)

(* what the catch block of runAgentMode (lines 309-317) leaves stored *)
StoreAfterError(st, id, hist) == st

(* the provider call rejects; the error reaches the catch of runAgentMode *)
ProviderFails ==
  /\ pc = "provider"
  /\ UNCHANGED << aiVars, configVars >>
  /\ inFlight' = inFlight - 1
  /\ store' = StoreAfterError(store, thread.id, work)
  /\ pc' = CatchPc
  /\ outcome' = "error:provider"
  /\ UNCHANGED << SessionFrame, lastToolFailed, conversationHistory, totalUsage, work,
                  turnUsage, pending, nextCallId, turns,
                  providerCalls, sentinelRead, renameCalls, reported,
                  storedAtTurnStart, lineRead >>

(* the function_call message that records a requested call *)
RecordCall(hist, call) == Append(hist, CallMsg(call))

(* the function message that records the outcome of the call *)
RecordResult(hist, call, handlerOk) ==
  Append(hist, ResultMsg(DispatchFunction(call, handlerOk)))

(* the next requested call is recorded and handed to the registry *)
DispatchCall ==
  /\ pc = "dispatch"
  /\ UNCHANGED << aiVars, configVars >>
  /\ pending # << >>
  /\ work' = RecordCall(work, Head(pending))
  /\ pc' = "handler"
  /\ UNCHANGED << store, SessionFrame, lastToolFailed, conversationHistory, totalUsage,
                  turnUsage, pending, inFlight, providerCalls, nextCallId,
                  turns, sentinelRead, renameCalls, reported,
                  storedAtTurnStart, lineRead, outcome >>

\* variant of Resubmit: the turn is over once the round's calls are resolved
ResubmitSkipped == "persist"

(* where the turn goes once every call of the round is resolved: back to
   the provider, with the updated history *)
Resubmit == "provider"

(* the registry answers (result or error); after the last call of the round
   the updated history is resubmitted to the provider *)
HandlerDone ==
  /\ pc = "handler"
  /\ UNCHANGED << aiVars, configVars >>
  /\ \E handlerOk \in BOOLEAN :
       /\ work' = RecordResult(work, Head(pending), handlerOk)
       /\ lastToolFailed' = (~handlerOk \/ Head(pending).name \notin Registered)
  /\ pending' = Tail(pending)
  /\ IF Len(pending) = 1
     THEN /\ pc' = Resubmit
          /\ inFlight' = inFlight + 1
          /\ providerCalls' = providerCalls + 1
     ELSE /\ pc' = "dispatch"
          /\ UNCHANGED << inFlight, providerCalls >>
  /\ UNCHANGED << store, SessionFrame, conversationHistory, totalUsage,
                  turnUsage, nextCallId, turns, sentinelRead,
                  renameCalls, reported, storedAtTurnStart, lineRead,
                  outcome >>

(* ------------------- runAgentMode: after the turn --------------------- *)
\* variant of AdoptHistory: only the messages the turn added are kept
AdoptNewMessagesOnly(old, history) == SubSeq(history, Len(old) + 1, Len(history))

(* line 256 *)
AdoptHistory(old, history) == history

\* variant of PersistedMessages: only the last exchange is handed over
PersistedNewMessages(history) ==
  SubSeq(history, Len(history) - 1, Len(history))

(* line 259: the messages handed to updateThread *)
PersistedMessages(history) == history

(* lines 256-259 *)
Persist ==
  /\ pc = "persist"
  /\ UNCHANGED << aiVars, configVars >>
  /\ conversationHistory' = AdoptHistory(conversationHistory, work)
  /\ \E ok \in BOOLEAN :
       IF ok
       THEN /\ store' = UpdateThread(store, thread.id,
                                  PersistedMessages(conversationHistory'))
            /\ pc' = "rename"
            /\ outcome' = outcome
       ELSE /\ store' = store
            /\ pc' = CatchPc
            /\ outcome' = "error:updateThread"
  /\ UNCHANGED << SessionFrame, totalUsage, TurnLocals, turns, providerCalls,
                  sentinelRead, renameCalls, reported, storedAtTurnStart,
                  lineRead >>

\* variant of ShouldRename: the name of the thread is not looked at
ShouldRenameAnyName(th, hist) == Len(hist) >= 2

(* lines 263-266 *)
ShouldRename(th, hist) ==
  StartsWith(th.name, DefaultNamePrefix) /\ Len(hist) >= 2

(* lines 289-291 *)
LastIsAssistant(hist) == hist[Len(hist)].role = "assistant"

\* variant of Accumulate: = instead of +=
AccumulateOverwrites(total, usage) ==
  [inputTokens |-> usage.inputTokens, outputTokens |-> usage.outputTokens]

(* lines 285-286 *)
Accumulate(total, usage) ==
  [inputTokens |-> total.inputTokens + usage.inputTokens,
   outputTokens |-> total.outputTokens + usage.outputTokens]

(* lines 263-292 *)
RenameAndAccumulate ==
  /\ pc = "rename"
  /\ UNCHANGED << aiVars, configVars >>
  /\ \E ok \in BOOLEAN :
       IF ShouldRename(thread, conversationHistory)
       THEN /\ renameCalls' = Append(renameCalls, TruncatedName(conversationHistory))
            /\ IF ok
               THEN /\ store' = RenameThread(store, thread.id,
                                             TruncatedName(conversationHistory))
                    /\ totalUsage' = Accumulate(totalUsage, turnUsage)
                    /\ pc' = IF LastIsAssistant(conversationHistory)
                             THEN "prompt" ELSE "loopTop"
                    /\ outcome' = outcome
               ELSE /\ store' = store
                    /\ totalUsage' = totalUsage
                    /\ pc' = CatchPc
                    /\ outcome' = "error:renameThread"
       ELSE /\ renameCalls' = renameCalls
            /\ store' = store
            /\ totalUsage' = Accumulate(totalUsage, turnUsage)
            /\ pc' = IF LastIsAssistant(conversationHistory)
                     THEN "prompt" ELSE "loopTop"
            /\ outcome' = outcome
  /\ UNCHANGED << SessionFrame, conversationHistory, TurnLocals, turns,
                  providerCalls, sentinelRead, reported, storedAtTurnStart,
                  lineRead >>

(* line 308: the total the module-level tracker of line 19 holds; no
   statement of agent.ts hands a usage to that tracker *)
DisplayTotalCost == costTracker

(* lines 294-302, and 305-308 on break *)
Prompt ==
  /\ pc = "prompt"
  /\ UNCHANGED << aiVars, configVars >>
  /\ \E raw \in PromptInputs :
       LET r == ProcessUserInput(raw)
       IN /\ lineRead' = raw
          /\ r.kind = "input" => turns < MaxTurns
          /\ IF r.kind = "exit"
             THEN /\ pc' = "ended"
                  /\ outcome' = "exited"
                  /\ sentinelRead' = (sentinelRead \/ raw \in SentinelLines)
                  /\ userInput' = userInput
                  /\ exitDisplay' = Append(exitDisplay, DisplayTotalCost)
             ELSE IF r.kind \in {"help", "empty"}
             THEN /\ sentinelRead' = (sentinelRead \/ raw \in SentinelLines)
                  /\ UNCHANGED << pc, outcome, userInput, exitDisplay >>
             ELSE /\ userInput' = r.input
                  /\ pc' = "loopTop"
                  /\ sentinelRead' = (sentinelRead \/ raw \in SentinelLines)
                  /\ outcome' = outcome
                  /\ exitDisplay' = exitDisplay
  /\ UNCHANGED << store, nextId, threadId, sessions, thread, loaded,
                  conversationHistory, totalUsage, TurnLocals, turns,
                  providerCalls, renameCalls, reported, storedAtTurnStart,
                  costTracker >>

(* ------------------------- ai.ts: agent branch ------------------------ *)
UpperCase == "ABCDEFGHIJKLMNOPQRSTUVWXYZ"
LowerCase == "abcdefghijklmnopqrstuvwxyz"

LowerChar(c) ==
  IF \E i \in 1..Len(UpperCase) : SubSeq(UpperCase, i, i) = c
  THEN LET k == CHOOSE j \in 1..Len(UpperCase) : SubSeq(UpperCase, j, j) = c
       IN SubSeq(LowerCase, k, k)
  ELSE c

RECURSIVE ToLowerCase(_)
ToLowerCase(s) ==
  IF Len(s) = 0 THEN ""
  ELSE LowerChar(SubSeq(s, 1, 1)) \o ToLowerCase(SubSeq(s, 2, Len(s)))

RECURSIVE Join(_)
Join(words) ==
  IF Len(words) = 0 THEN ""
  ELSE IF Len(words) = 1 THEN words[1]
  ELSE words[1] \o " " \o Join(Tail(words))

\* variant of AiIsExit: the comparison without toLowerCase
AiIsExitExactCase(userInput_) == userInput_ = "exit" \/ userInput_ = "quit"

(* line 161 *)
AiIsExit(userInput_) ==
  ToLowerCase(userInput_) = "exit" \/ ToLowerCase(userInput_) = "quit"

\* variant of ArmedAfterLine: the question is asked again before the answer
ArmedWhileAnswering(n) == n

(* readline.question hands the next line to its callback once *)
ArmedAfterLine(n) == n - 1

(* line 184 / 188: askQuestion() *)
ArmedAfterAsk(n) == n + 1

\* variant of AiPush: only the reply is recorded
AiPushReplyOnly(hist, input, command) ==
  hist \o << TextMsg("assistant", command) >>

(* lines 145-148 and 176-179 *)
AiPush(hist, input, command) ==
  hist \o << TextMsg("user", input), TextMsg("assistant", command) >>

RemoveAt(seq, i) == SubSeq(seq, 1, i - 1) \o SubSeq(seq, i + 1, Len(seq))

AgentFrame == << configVars,
                 store, nextId, threadId, sessions, costTracker, exitDisplay, thread, loaded, lastToolFailed,
                 conversationHistory,
                 userInput, totalUsage, work, turnUsage, pending,
                 nextCallId, turns, providerCalls, sentinelRead, renameCalls,
                 reported, storedAtTurnStart, lineRead, outcome >>

(* lines 107-157: `ai --agent [input...]` *)
AiStart ==
  /\ pc = "idle"
  /\ aiPc = "off"
  /\ pc' = "ai"
  /\ \E input \in AiArguments :
       IF Len(input) > 0
       THEN /\ aiCalls' = << Join(input) >>
            /\ aiSubmitted' = Append(aiSubmitted, Join(input))
            /\ inFlight' = inFlight + 1
            /\ aiPc' = "initial"
            /\ aiArmed' = aiArmed
       ELSE /\ aiArmed' = ArmedAfterAsk(aiArmed)
            /\ aiPc' = "loop"
            /\ UNCHANGED << aiCalls, aiSubmitted, inFlight >>
  /\ UNCHANGED << aiHistory, AgentFrame >>

(* lines 138-157, 188: the initial command returns, the loop starts *)
AiInitialDone ==
  /\ aiPc = "initial"
  /\ \E command \in Replies :
       aiHistory' = AiPush(aiHistory, aiCalls[1], command)
  /\ aiCalls' = << >>
  /\ inFlight' = inFlight - 1
  /\ aiArmed' = ArmedAfterAsk(aiArmed)
  /\ aiPc' = "loop"
  /\ UNCHANGED << pc, aiSubmitted, AgentFrame >>

(* lines 205-208: the initial command throws, the process exits *)
AiInitialFails ==
  /\ aiPc = "initial"
  /\ aiCalls' = << >>
  /\ inFlight' = inFlight - 1
  /\ aiPc' = "exited"
  /\ UNCHANGED << pc, aiHistory, aiArmed, aiSubmitted, AgentFrame >>

(* lines 160-173: a line arrives for a waiting question *)
AiLine ==
  /\ aiPc = "loop"
  /\ aiArmed > 0
  /\ \E line \in AiLines :
       IF AiIsExit(line)
       THEN /\ aiPc' = "closed"
            /\ aiArmed' = 0
            /\ UNCHANGED << aiCalls, aiSubmitted, inFlight >>
       ELSE /\ Len(aiSubmitted) < MaxAiTurns
            /\ aiArmed' = ArmedAfterLine(aiArmed)
            /\ aiCalls' = Append(aiCalls, line)
            /\ aiSubmitted' = Append(aiSubmitted, line)
            /\ inFlight' = inFlight + 1
            /\ aiPc' = aiPc
  /\ UNCHANGED << pc, aiHistory, AgentFrame >>

(* lines 169-184: processCommand returns *)
AiCommandDone ==
  /\ aiPc \in {"loop", "closed"}
  /\ \E i \in 1..Len(aiCalls), command \in Replies :
       /\ aiHistory' = AiPush(aiHistory, aiCalls[i], command)
       /\ aiCalls' = RemoveAt(aiCalls, i)
  /\ inFlight' = inFlight - 1
  /\ aiArmed' = IF aiPc = "closed" THEN aiArmed ELSE ArmedAfterAsk(aiArmed)
  /\ UNCHANGED << pc, aiPc, aiSubmitted, AgentFrame >>

(* processCommand rejects inside the readline callback: nothing catches
   it and askQuestion is not called again *)
AiCommandFails ==
  /\ aiPc \in {"loop", "closed"}
  /\ \E i \in 1..Len(aiCalls) :
       aiCalls' = RemoveAt(aiCalls, i)
  /\ inFlight' = inFlight - 1
  /\ UNCHANGED << pc, aiPc, aiHistory, aiArmed, aiSubmitted, AgentFrame >>

Next ==
  \/ StartSession
  \/ StartSessionStoreFails
  \/ FirstPrompt
  \/ BeginTurn
  \/ ProviderFinal
  \/ ProviderCalls
  \/ ProviderFails
  \/ DispatchCall
  \/ HandlerDone
  \/ Persist
  \/ RenameAndAccumulate
  \/ Prompt
  \/ AiStart
  \/ AiInitialDone
  \/ AiInitialFails
  \/ AiLine
  \/ AiCommandDone
  \/ AiCommandFails

Spec == Init /\ [][Next]_vars

(* ------------------- one turn of a running session -------------------- *)
(* the state in which runAgentMode reaches line 232 for the first time on a
   new thread, for each initial input that is not blank *)
TurnInit ==
  \E args \in InitialArgs :
    LET ui == IF Trim(args.context) # ""
              THEN args.input \o ContextHeader \o args.context
              ELSE args.input
        th == [id |-> ThreadIdOf(1), name |-> DefaultNamePrefix \o "1",
               messages |-> << TextMsg("user", ui) >>]
    IN /\ Trim(ui) # ""
       /\ store = CreateThread([i \in ThreadIds |-> NoThread], 1)
       /\ nextId = 2
       /\ threadId = NoThreadId
       /\ sessions = 1
       /\ pc = "loopTop"
       /\ thread = th
       /\ conversationHistory = th.messages
       /\ userInput = ui
       /\ totalUsage = ZeroUsage
       /\ costTracker = ZeroUsage
       /\ exitDisplay = << >>
       /\ work = << >>
       /\ turnUsage = ZeroUsage
       /\ pending = << >>
       /\ inFlight = 0
       /\ nextCallId = 1
       /\ turns = 0
       /\ providerCalls = 0
       /\ sentinelRead = FALSE
       /\ renameCalls = << >>
       /\ reported = ZeroUsage
       /\ storedAtTurnStart = << >>
       /\ lineRead = "none"
       /\ loaded = << >>
       /\ lastToolFailed = FALSE
       /\ outcome = "running"
       /\ aiPc = "off"
       /\ aiHistory = << >>
       /\ aiArmed = 0
       /\ aiCalls = << >>
       /\ aiSubmitted = << >>
       /\ modelsFile = ShippedModelsFile
       /\ configResult = NoCall

TurnNext ==
  \/ BeginTurn
  \/ ProviderFinal
  \/ ProviderCalls
  \/ ProviderFails
  \/ DispatchCall
  \/ HandlerDone

(* the awaited calls of the turn complete (the registry answers, the loop
   goes on), and the provider, asked again and again, eventually answers
   without function calls *)
TurnFairSpec ==
  /\ TurnInit
  /\ [][TurnNext]_vars
  /\ WF_vars(BeginTurn)
  /\ WF_vars(DispatchCall)
  /\ WF_vars(HandlerDone)
  /\ SF_vars(ProviderFinal)

(* ============================== claims ================================ *)
DefaultNamed == StartsWith(thread.name, DefaultNamePrefix)
TurnErrors == {"error:provider", "error:updateThread", "error:renameThread"}
InTurn == pc \in {"provider", "dispatch", "handler", "persist"}
Stored == store[thread.id].messages

CallIds(m) == [k \in 1..Len(m.calls) |-> m.calls[k].callId]

Paired(h) ==
  \A i \in 1..Len(h) :
    h[i].role = "function_call" =>
      /\ i < Len(h)
      /\ h[i + 1].role = "function"
      /\ CallIds(h[i + 1]) = CallIds(h[i])

CallEntries(h) ==
  { <<i, k>> \in (1..Len(h)) \X (1..MaxCalls + 1) :
      h[i].role = "function_call" /\ k <= Len(h[i].calls) }

CallMsgs(h) == { i \in 1..Len(h) : h[i].role = "function_call" }

(* every function_call message records one call, and as many different
   callIds occur as there are function_call messages *)
UniqueCallIds(h) ==
  /\ \A i \in CallMsgs(h) : Len(h[i].calls) = 1
  /\ Cardinality({ h[i].calls[1].callId : i \in CallMsgs(h) })
       = Cardinality(CallMsgs(h))

FunctionMsgs(h) == { i \in 1..Len(h) : h[i].role = "function" }
LastFunctionMsg(h) == CHOOSE i \in FunctionMsgs(h) : \A j \in FunctionMsgs(h) : j <= i

(* C1: in a session on a thread with its default name ("Thread-...") and an
   empty history, renameThread is called after the first exchange and is not
   called again after a later exchange of the same session. *)
C1_RenameExactlyOnce ==
  (sessions > 0 /\ DefaultNamed /\ loaded = << >>) =>
     /\ Len(renameCalls) <= 1
     /\ pc = "prompt" => Len(renameCalls) = 1

(* C2 as claimed: an error raised during a turn (provider, updateThread or
   renameThread) leaves the session loop running, at the next prompt. *)
C2_TurnErrorContinues == outcome \in TurnErrors => pc = "prompt"

(* C2 as amended: an error raised during a turn is caught by the one
   try/catch around runAgentMode and ends the session, as a setup error
   does; no provider call stays in flight and no further prompt follows. *)
C2_ErrorEndsSession ==
  outcome \in TurnErrors \cup {"error:setup"} => pc = "ended" /\ inFlight = 0

C2_Witness ==
  /\ outcome \in TurnErrors
  /\ pc = "ended"
  /\ Len(work) > 0

(* C3: history is append-only: the history a turn works on and returns has
   the history it was given as a prefix, and within a session every step
   leaves the old conversation history a prefix of the new one. *)
C3_AppendOnly ==
  /\ [](InTurn => IsPrefix(conversationHistory, work))
  /\ [][sessions' = sessions =>
          IsPrefix(conversationHistory, conversationHistory')]_vars

C3_Witness ==
  /\ pc = "rename"
  /\ Len(loaded) = 0
  /\ Len(conversationHistory) >= 5

(* C4: in every history produced by a turn (handed to the provider, returned
   to the loop or stored) each function_call message is directly followed by
   a function message with the same callIds, and no callId is used by two
   function_call entries of one conversation. *)
C4_CallsPaired ==
  /\ Paired(conversationHistory)
  /\ \A id \in ThreadIds : Paired(store[id].messages)
  /\ pc \in {"provider", "persist"} => Paired(work)
  /\ UniqueCallIds(work)
  /\ UniqueCallIds(conversationHistory)
  /\ \A id \in ThreadIds : UniqueCallIds(store[id].messages)

C4_Witness ==
  /\ pc = "prompt"
  /\ Cardinality(CallEntries(conversationHistory)) >= 2

(* C5: whenever the user is prompted inside the loop, the messages stored
   for the thread equal the in-memory conversation history: updateThread
   was called with the full returned history before the prompt. *)
C5_StoredBeforePrompt == pc = "prompt" => Stored = conversationHistory

C5_Witness ==
  /\ pc = "prompt"
  /\ Len(conversationHistory) >= 5
  /\ Stored = conversationHistory

(* C6: once a sentinel (exit, quit, q) has been read the session has ended
   with no provider call in flight, the provider is not invoked again in
   that session, and a sentinel read at the first prompt means the provider
   was never invoked. *)
C6_SentinelStopsProvider ==
  /\ [](sentinelRead => pc = "ended" /\ inFlight = 0)
  /\ [](outcome = "returned" => providerCalls = 0)
  /\ [][(sentinelRead /\ sessions' = sessions) =>
          providerCalls' = providerCalls]_vars

C6_Witness ==
  /\ sentinelRead
  /\ pc = "ended"
  /\ providerCalls >= 2

(* C7: no two turns run concurrently: at most one provider call is in
   flight; the agent.ts loop prompts only with no call in flight, no call
   left to dispatch and the turn's history stored; the ai.ts loop has a
   question waiting for a line only while no command is being processed. *)
C7_OneTurnAtATime ==
  /\ inFlight <= 1
  /\ Len(aiCalls) <= 1
  /\ pc \in {"prompt", "firstPrompt"} => inFlight = 0 /\ pending = << >>
  /\ pc = "prompt" => Stored = conversationHistory /\ work = conversationHistory
  /\ aiArmed > 0 => aiCalls = << >> /\ inFlight = 0

C7_Witness ==
  /\ aiPc = "loop"
  /\ aiArmed = 1
  /\ Len(aiHistory) >= 4

(* C8: the running usage total is never reset during a session and, at every
   prompt and at loop exit, equals the sum of the usage the completed turns
   reported. *)
C8_UsageIsSumOfTurns ==
  /\ []((pc = "prompt" \/ outcome = "exited") => totalUsage = reported)
  /\ [][sessions' = sessions =>
          /\ totalUsage'.inputTokens >= totalUsage.inputTokens
          /\ totalUsage'.outputTokens >= totalUsage.outputTokens]_vars

C8_Witness ==
  /\ pc = "prompt"
  /\ totalUsage.inputTokens >= 11
  /\ totalUsage = reported

(* C9: when the provider fails during a turn the session ends and the
   messages stored for the thread are exactly the messages that were stored
   when the turn began. *)
C9_NoPartialTurnStored ==
  outcome = "error:provider" => Stored = storedAtTurnStart

C9_Witness ==
  /\ outcome = "error:provider"
  /\ Len(storedAtTurnStart) > 0
  /\ Len(work) > Len(storedAtTurnStart) + 1

(* C10: a tool failure never aborts a turn: after a call that failed or named
   an unregistered tool, the history holds a function message with the
   error set and the callId of its function_call, and from the dispatch of a
   call the turn only goes on to the next call or back to the provider. *)
C10_ToolFailureIsData ==
  /\ [](lastToolFailed =>
          /\ FunctionMsgs(work) # {}
          /\ LET i == LastFunctionMsg(work)
             IN /\ work[i].calls[1].hasError
                /\ work[i].calls[1].error # ""
                /\ i > 1
                /\ work[i - 1].role = "function_call"
                /\ work[i - 1].calls[1].callId = work[i].calls[1].callId)
  /\ [][pc = "handler" =>
          /\ pc' \in {"dispatch", "provider"}
          /\ Len(work') = Len(work) + 1
          /\ work'[Len(work')].role = "function"]_vars

C10_Witness ==
  /\ lastToolFailed
  /\ pc = "prompt"
  /\ \E i \in FunctionMsgs(conversationHistory) :
       conversationHistory[i].calls[1].error = "boom"

(* ------------------- the functions of model-config.ts ----------------- *)
ConfigInit ==
  /\ IdleProcess
  /\ modelsFile \in ModelsFiles
  /\ configResult = NoCall

CallGetDefaultModel ==
  /\ \E provider \in Providers :
       LET r == GetDefaultModel(modelsFile, provider)
       IN configResult' = [NoCall EXCEPT !.fn = "getDefaultModel",
                                         !.arg = provider,
                                         !.threw = r.threw,
                                         !.text = r.text]
  /\ UNCHANGED << aiVars, store, nextId, threadId, sessions, pc, thread,
                  conversationHistory, userInput, totalUsage, costTracker,
                  exitDisplay, TurnLocals, turns, providerCalls, sentinelRead,
                  renameCalls, reported, storedAtTurnStart, lineRead, loaded,
                  outcome, modelsFile >>

CallGetModelByValue ==
  /\ \E modelValue \in ModelValues :
       LET r == GetModelByValue(modelsFile, modelValue)
       IN configResult' = [NoCall EXCEPT !.fn = "getModelByValue",
                                         !.arg = modelValue,
                                         !.threw = r.threw,
                                         !.model = r.model]
  /\ UNCHANGED << aiVars, store, nextId, threadId, sessions, pc, thread,
                  conversationHistory, userInput, totalUsage, costTracker,
                  exitDisplay, TurnLocals, turns, providerCalls, sentinelRead,
                  renameCalls, reported, storedAtTurnStart, lineRead, loaded,
                  outcome, modelsFile >>

CallCalculateCost ==
  /\ \E modelValue \in ModelValues, usage \in TokenCounts :
       LET r == CalculateCost(modelsFile, modelValue,
                              usage.inputTokens, usage.outputTokens)
       IN configResult' = [NoCall EXCEPT !.fn = "calculateCost",
                                         !.arg = modelValue,
                                         !.usage = usage,
                                         !.threw = r.threw,
                                         !.cost = r.cost]
  /\ UNCHANGED << aiVars, store, nextId, threadId, sessions, pc, thread,
                  conversationHistory, userInput, totalUsage, costTracker,
                  exitDisplay, TurnLocals, turns, providerCalls, sentinelRead,
                  renameCalls, reported, storedAtTurnStart, lineRead, loaded,
                  outcome, modelsFile >>

ConfigNext ==
  \/ CallGetDefaultModel
  \/ CallGetModelByValue
  \/ CallCalculateCost

ConfigSpec == ConfigInit /\ [][ConfigNext]_vars

(* ---------------- the rename after a stored exchange ------------------ *)
Filler ==
  "aaaaaaaaaaaaaaaaaaaaaaaaaaaaaaaaaaaaaaaaaaaaaaaaaaaaaaaaaaaa" \o
  "aaaaaaaaaaaaaaaaaaaaaaaaaaaaaaaaaaaaaaaaaaaaaaaaaaaaaaaaaaaa"

(* user messages around the cap of the name: an initial input is stored as
   given, with leading blanks if it has them, and an input that only pipes
   a context begins with the blank lines of the context header *)
NameLeads == {"", " ", "\n\n"}
NamePads == {3, 113, 114, 115, 119, 120}
NameUserTexts == { lead \o SubSeq(Filler, 1, n) : lead \in NameLeads, n \in NamePads }
NameReplies == {"Done.", "ok then"}

NameHistories ==
  UNION { { << TextMsg("user", u), TextMsg("assistant", a) >>,
            << TextMsg("user", u), TextMsg("user", u), TextMsg("assistant", a) >>,
            << TextMsg("user", u), TextMsg("assistant", a),
               TextMsg("user", "more"), TextMsg("assistant", "later") >> } :
          u \in NameUserTexts, a \in NameReplies }

(* runAgentMode at line 263, the history of the turn just stored *)
NameInit ==
  \E h \in NameHistories :
    /\ store = [CreateThread([i \in ThreadIds |-> NoThread], 1)
                  EXCEPT ![ThreadIdOf(1)].messages = h]
    /\ nextId = 2
    /\ threadId = NoThreadId
    /\ sessions = 1
    /\ pc = "rename"
    /\ thread = [id |-> ThreadIdOf(1), name |-> DefaultNamePrefix \o "1",
                 messages |-> << h[1] >>]
    /\ conversationHistory = h
    /\ userInput = h[1].content
    /\ totalUsage = ZeroUsage
    /\ costTracker = ZeroUsage
    /\ exitDisplay = << >>
    /\ work = h
    /\ turnUsage = ZeroUsage
    /\ pending = << >>
    /\ inFlight = 0
    /\ nextCallId = 1
    /\ turns = MaxTurns
    /\ providerCalls = 1
    /\ sentinelRead = FALSE
    /\ renameCalls = << >>
    /\ reported = ZeroUsage
    /\ storedAtTurnStart = << >>
    /\ lineRead = "none"
    /\ loaded = << >>
    /\ lastToolFailed = FALSE
    /\ outcome = "running"
    /\ aiPc = "off"
    /\ aiHistory = << >>
    /\ aiArmed = 0
    /\ aiCalls = << >>
    /\ aiSubmitted = << >>
    /\ modelsFile = ShippedModelsFile
    /\ configResult = NoCall

NameNext == RenameAndAccumulate

NameSpec == NameInit /\ [][NameNext]_vars

(* the first message of role r, scanning the history from its start *)
RECURSIVE FirstOfRole(_, _)
FirstOfRole(h, r) ==
  IF h = << >> THEN ""
  ELSE IF Head(h).role = r THEN Head(h).content
  ELSE FirstOfRole(Tail(h), r)

JoinedText(h) == FirstOfRole(h, "user") \o " " \o FirstOfRole(h, "assistant")

(* C19 as claimed: the name passed to renameThread is the joined text
   itself if that has at most 120 characters, and otherwise its first 120
   characters with trailing blanks removed, followed by "...". *)
C19_NameTrimmedAtEnd ==
  renameCalls # << >> =>
    renameCalls[1] =
      IF Len(JoinedText(conversationHistory)) <= 120
      THEN JoinedText(conversationHistory)
      ELSE TrimEnd(SubSeq(JoinedText(conversationHistory), 1, 120)) \o "..."

(* C19 as amended: the name passed to renameThread is the joined text
   itself if that has at most 120 characters, and otherwise its first 120
   characters with the blanks at both ends removed, followed by "...". *)
C19_NameTrimmedAtBothEnds ==
  renameCalls # << >> =>
    renameCalls[1] =
      IF Len(JoinedText(conversationHistory)) <= 120
      THEN JoinedText(conversationHistory)
      ELSE TrimStart(TrimEnd(SubSeq(JoinedText(conversationHistory), 1, 120)))
             \o "..."

C19_Witness ==
  /\ renameCalls # << >>
  /\ Len(JoinedText(conversationHistory)) > 120
  /\ SubSeq(JoinedText(conversationHistory), 1, 1) = "\n"
  /\ SubSeq(renameCalls[1], 1, 1) = "a"
  /\ store[thread.id].name = renameCalls[1]

(* C11: the turn is Done exactly on a provider response without function
   calls, which appends the assistant message; a response with function
   calls leaves the turn running, and after the last call of the round the
   longer history is resubmitted to the provider; if the provider eventually
   answers without function calls the turn ends. *)
C11_TurnEndsOnFinalResponse ==
  /\ [](pc = "persist" => /\ work[Len(work)].role = "assistant"
                          /\ pending = << >>
                          /\ inFlight = 0)
  /\ [][(pc # "persist" /\ pc' = "persist") =>
          /\ pc = "provider"
          /\ work' = Append(work, work'[Len(work')])]_vars
  /\ [][(pc = "provider" /\ pending' # << >>) => pc' = "dispatch"]_vars
  /\ [](pc \in {"dispatch", "handler"} => pending # << >>)
  /\ [][(pc = "handler" /\ Len(pending) = 1) =>
          /\ pc' = "provider"
          /\ providerCalls' = providerCalls + 1
          /\ Len(work') > Len(work)]_vars
  /\ (pc = "provider") ~> (pc = "persist" \/ outcome = "error:provider")

C11_Witness ==
  /\ pc = "persist"
  /\ providerCalls >= 3
  /\ work[Len(work)].role = "assistant"

(* C12: a session started with a thread id the store does not know is not
   ended by the lookup: unless the store itself fails, the session runs on a
   thread created for it, with a default name and no messages, and the
   start leaves the session at a prompt or at its first turn. *)
C12_UnknownThreadCreatesNew ==
  /\ []((sessions > 0 /\ threadId = MissingId /\ outcome # "error:setup") =>
          /\ outcome # "error:getThread"
          /\ thread.id = ThreadIdOf(nextId - 1)
          /\ HasThread(store, thread.id)
          /\ StartsWith(thread.name, DefaultNamePrefix)
          /\ loaded = << >>)
  /\ [][(sessions' = sessions + 1 /\ threadId' = MissingId
           /\ outcome' # "error:setup") =>
          /\ ~HasThread(store, thread'.id)
          /\ store'[thread'.id].messages = << >>
          /\ pc' \in {"firstPrompt", "loopTop"}]_vars

C12_Witness ==
  /\ threadId = MissingId
  /\ thread.id = "t2"
  /\ pc = "prompt"
  /\ Len(conversationHistory) >= 2

AtPrompt == pc \in {"prompt", "firstPrompt"}

(* C13: a help line or a blank line read at a prompt does not consume a
   turn: the session stays at the same prompt, and the conversation history,
   the stored threads, the usage total, the input of the next turn and the
   count of provider calls are as they were. *)
C13_HelpAndEmptyReprompt ==
  [][(AtPrompt /\ lineRead' \in HelpOrBlankLines) =>
       /\ pc' = pc
       /\ conversationHistory' = conversationHistory
       /\ thread' = thread
       /\ store' = store
       /\ totalUsage' = totalUsage
       /\ userInput' = userInput
       /\ providerCalls' = providerCalls
       /\ turns' = turns
       /\ inFlight' = 0]_vars

C13_Witness ==
  /\ pc = "prompt"
  /\ lineRead = "help"
  /\ Len(conversationHistory) >= 2

(* the lines the user can type that are neither sentinels nor help nor
   blank, among them exit in another case *)
OtherLines == PromptInputs \ (SentinelLines \cup HelpOrBlankLines)

(* C14: a line read at a prompt ends the session exactly when, trimmed, it
   is exit, quit or q in lower case; a line in another spelling, such as
   EXIT, becomes the user input of the next turn, which starts with it. *)
C14_ExitIsCaseSensitive ==
  /\ [][(AtPrompt /\ lineRead' \in SentinelLines) => pc' = "ended"]_vars
  /\ [][(AtPrompt /\ pc' = "ended") => lineRead' \in SentinelLines]_vars
  /\ [][(AtPrompt /\ lineRead' \in OtherLines) =>
          /\ pc' = "loopTop"
          /\ userInput' = lineRead']_vars
  /\ [][pc = "loopTop" =>
          /\ pc' = "provider"
          /\ work'[Len(work')] = TextMsg("user", userInput)]_vars

C14_Witness ==
  /\ "EXIT" \in OtherLines
  /\ lineRead = "EXIT"
  /\ userInput = "EXIT"
  /\ pc = "provider"
  /\ providerCalls >= 2

(* the in-session commands the CLI surface names *)
CliSentinels == {"exit", "quit", "q", "help"}

(* the lines of the ai.ts loop that spell exit or quit, in any case *)
AiExitLines == {"exit", "Quit"}

UserContents(h) == { h[i].content : i \in { j \in 1..Len(h) : h[j].role = "user" } }
Range(q) == { q[i] : i \in 1..Len(q) }

(* C15 as claimed: in the ai.ts agent loop none of exit, quit, q, help is
   handed to processCommand or recorded in the conversation history. *)
C15_AiSentinelsNotSubmitted ==
  /\ Range(aiSubmitted) \cap CliSentinels = {}
  /\ UserContents(aiHistory) \cap CliSentinels = {}

(* C15 as amended: in the ai.ts agent loop only a line that spells exit or
   quit, in any letter case, is a sentinel: it is never handed to
   processCommand nor recorded, and it closes the loop without a call; every
   other line read, q and help included, is handed to processCommand. *)
C15_AiOnlyExitAndQuit ==
  /\ [](Range(aiSubmitted) \cap AiExitLines = {})
  /\ [](UserContents(aiHistory) \cap AiExitLines = {})
  /\ [][(aiPc = "loop" /\ aiPc' = "closed") =>
          /\ aiSubmitted' = aiSubmitted
          /\ aiHistory' = aiHistory
          /\ inFlight' = inFlight]_vars
  /\ [][(aiPc = "loop" /\ aiPc' = "loop" /\ aiArmed' < aiArmed) =>
          /\ Len(aiSubmitted') = Len(aiSubmitted) + 1
          /\ aiCalls' = << aiSubmitted'[Len(aiSubmitted')] >>]_vars

C15_Witness ==
  /\ aiPc = "closed"
  /\ aiSubmitted = << "q", "help" >>
  /\ UserContents(aiHistory) = {"q", "help"}

(* C16: when the loop is left by a sentinel the total shown is the sum of
   the usage of the turns completed in the session. *)
C16_ExitShowsSessionTotal ==
  outcome = "exited" => exitDisplay = << reported >>

UserMsgs(h) == { i \in 1..Len(h) : h[i].role = "user" }

(* the first turn of a session that began on an empty thread with an
   initial input has been stored, and no line has been read at a prompt *)
FirstTurnOfInitialInputStored ==
  /\ sessions > 0
  /\ loaded = << >>
  /\ lineRead = "none"
  /\ pc \in {"rename", "prompt"}

(* C17: in a session started on an empty thread with a non-empty initial
   input, the history stored after the first turn holds exactly one user
   message, the first message, whose content is that input, and ends with
   the assistant message. *)
C17_InitialInputRecordedOnce ==
  FirstTurnOfInitialInputStored =>
    /\ UserMsgs(Stored) = {1}
    /\ Stored[1] = TextMsg("user", userInput)
    /\ Stored[Len(Stored)].role = "assistant"

(* C18: whenever the session loop is about to start a turn, or a turn is
   running, the user input given to the conversation engine is not blank. *)
C18_NoTurnOnBlankInput ==
  (pc = "loopTop" \/ InTurn) => Trim(userInput) # ""

(* C20: when a turn is about to start or is running and the session has
   added messages to the history it loaded, the stored thread holds the
   session's history, the initial user message included. *)
C20_InitialMessageStoredBeforeTurn ==
  ((pc = "loopTop" \/ InTurn) /\ Len(conversationHistory) > Len(loaded)) =>
     IsPrefix(conversationHistory, Stored)

(* C21: within one session every renameThread call passes the same name,
   the stored name of a thread changes only with the first of these calls,
   and a thread loaded with a name that does not start with "Thread-" is
   not renamed. *)
C21_NameChangesAtMostOnce ==
  /\ [](\A i, j \in 1..Len(renameCalls) : renameCalls[i] = renameCalls[j])
  /\ [][sessions' = sessions =>
          \A id \in ThreadIds :
            store'[id].name # store[id].name =>
              /\ id = thread.id
              /\ renameCalls = << >>
              /\ renameCalls' = << store'[id].name >>]_vars
  /\ []((sessions > 0 /\ ~StartsWith(thread.name, "Thread-")) =>
          renameCalls = << >>)

C21_Witness ==
  /\ Len(renameCalls) = 2
  /\ pc = "prompt"
  /\ store[thread.id].name = renameCalls[1]

(* a thread that an earlier session renamed is resumed and is not renamed *)
C21_WitnessRenamedThreadKept ==
  /\ sessions = 2
  /\ ~StartsWith(thread.name, "Thread-")
  /\ pc = "prompt"
  /\ Len(conversationHistory) > Len(loaded)
  /\ store[thread.id].name = thread.name

(* the history of ai.ts is the exchanges of the first n submitted inputs:
   user message with the input, then an assistant message *)
AiExchanges(h, inputs, n) ==
  /\ Len(h) = 2 * n
  /\ n <= Len(inputs)
  /\ \A k \in 1..n :
       /\ h[2 * k - 1] = TextMsg("user", inputs[k])
       /\ h[2 * k].role = "assistant"

(* C22: the module-level history of ai.ts alternates user and assistant
   messages, starting with a user message, one pair for each completed
   exchange in the order of the inputs; while processCommand runs for an
   input the history it was passed holds the pairs of the earlier inputs
   only, not yet a message for this one; a completed exchange appends the
   user message of its input and then one assistant message; a line that
   closes the loop appends nothing. *)
C22_AiHistoryAlternates ==
  /\ [](\E n \in 0..Len(aiSubmitted) : AiExchanges(aiHistory, aiSubmitted, n))
  /\ [](aiCalls # << >> =>
          /\ aiCalls = << aiSubmitted[Len(aiSubmitted)] >>
          /\ AiExchanges(aiHistory, aiSubmitted, Len(aiSubmitted) - 1))
  /\ [][aiHistory' # aiHistory =>
          /\ aiCalls # << >>
          /\ Len(aiHistory') = Len(aiHistory) + 2
          /\ SubSeq(aiHistory', 1, Len(aiHistory)) = aiHistory
          /\ aiHistory'[Len(aiHistory) + 1] = TextMsg("user", aiCalls[1])
          /\ aiHistory'[Len(aiHistory) + 2].role = "assistant"]_vars
  /\ [][(aiPc = "loop" /\ aiPc' = "closed") => aiHistory' = aiHistory]_vars

C22_Witness ==
  /\ aiPc = "loop"
  /\ aiCalls = << "hi" >>
  /\ aiHistory = << TextMsg("user", "list files"), TextMsg("assistant", "Done.") >>

(* the defaults the claim names for a provider without a readable entry *)
HardcodedDefaults ==
  [ p \in Providers |->
      IF p = "openai" THEN "gpt-4o"
      ELSE IF p = "claude" THEN "claude-3-opus-20240229"
      ELSE IF p = "gemini" THEN "gemini-1.5-pro"
      ELSE IF p = "ollama" THEN "llama3"
      ELSE "" ]

ProviderListed(file, provider) ==
  /\ file.state = "ok"
  /\ \E e \in Range(file.entries) : e.provider = provider

ModelListed(file, modelValue) ==
  /\ file.state = "ok"
  /\ \E e \in Range(file.entries) :
        \E m \in Range(e.models) : m.value = modelValue

(* C23: getDefaultModel(provider) returns the default model of the
   provider's entry when the models configuration is readable and contains
   that provider, and otherwise the hardcoded default of the provider (the
   empty string for an unknown provider); getModelByValue and calculateCost
   never throw on a missing configuration or an unknown model: they return
   null and 0. *)
C23_ConfigLookupsFallBack ==
  /\ ~configResult.threw
  /\ configResult.fn = "getDefaultModel" =>
        IF ProviderListed(modelsFile, configResult.arg)
        THEN \E e \in Range(modelsFile.entries) :
               /\ e.provider = configResult.arg
               /\ configResult.text = e.default
        ELSE configResult.text = HardcodedDefaults[configResult.arg]
  /\ (/\ configResult.fn = "getModelByValue"
      /\ ~ModelListed(modelsFile, configResult.arg)) =>
        configResult.model.isNull
  /\ (/\ configResult.fn = "calculateCost"
      /\ ~ModelListed(modelsFile, configResult.arg)) =>
        configResult.cost = 0

C23_Witness ==
  /\ modelsFile.state = "absent"
  /\ configResult.fn = "getDefaultModel"
  /\ configResult.arg = "claude"
  /\ configResult.text = "claude-3-opus-20240229"

(* further cases of C23 that the model reaches *)
C23_WitnessEntryDefault ==
  /\ modelsFile = ShippedModelsFile
  /\ configResult.fn = "getDefaultModel"
  /\ configResult.arg = "openai"
  /\ configResult.text = "gpt-4o-mini"

C23_WitnessUnknownModelCostsNothing ==
  /\ modelsFile = ShippedModelsFile
  /\ configResult.fn = "calculateCost"
  /\ configResult.arg = "nope"
  /\ configResult.usage.inputTokens = 1000000
  /\ configResult.cost = 0

====
